---- MODULE Spec2Model ----
(***************************************************************************)
(* Dynamic MAC learning of the VPP container chain                         *)
(* (vpp_chain/src/utils/dynamic_mac_learning.py).                          *)
(*                                                                         *)
(* One run of run_dynamic_mac_learning is a sequential process; every      *)
(* action below is one blocking `subprocess.run` call together with the    *)
(* code that surrounds it up to the next call.  The answer of the node to  *)
(* a command (exit status 0 with some text, error exit, timeout, any other *)
(* exception) is the only nondeterminism.                                  *)
(***************************************************************************)
EXTENDS Integers, Sequences, FiniteSets, TLC

VARIABLES
    containers,   \* self.containers.keys(): the container names, in configuration order
    ctl,          \* position of the run: [pc, idx, edge, strat]
    plast,        \* outcome of the promiscuous-mode command just issued ("none" once the run moved on)
    wait_count,   \* local of the readiness loop
    tries,        \* probes the gate spent on the container that has just answered (0 once the run moved on)
    ready,        \* containers whose `show version` probe exited with status 0
    timed_out,    \* containers for which the readiness loop returned False
    last,         \* the answer to the latest discovery command
    lastEdge,     \* the edge that discovery command belonged to (0: none)
    mac,          \* per edge: security_mac / destination_mac
    found_by,     \* per edge: index of the command whose address was returned (0: none)
    ignored,      \* addresses the latest discovery logged as "Found non-VPP MAC ... (ignoring)"
    wres,         \* per edge: outcome of the `set ip neighbor` command
    success,      \* local `success` of learn_and_update_all_macs
    result,       \* what run_dynamic_mac_learning gave back to its caller
    cmds,         \* the commands issued so far except readiness probes, in order
    nbr,          \* per node: its neighbor table
    lastGood,     \* per edge: the address of the latest write that exited with status 0
    lastSnap,     \* what the latest verify_neighbor_table returned, and for which node
    run,          \* how many times run_dynamic_mac_learning has been called
    prev,         \* the previous run: its result, its tables at the end and, if it converged, its addresses
    busy,         \* per node: commands issued to it that have not ended yet
    cancelled,    \* the caller has asked the run to stop
    mgr,          \* ContainerManager.start_containers: position, commands issued, returned value
    sup           \* the kea-frr-vpp entrypoint: position, process list, children, exit

vars == <<containers, ctl, plast, wait_count, tries, ready, timed_out, last, lastEdge, mac,
          found_by, ignored, wres, success, result, cmds, nbr, lastGood, lastSnap, run, prev,
          busy, cancelled, mgr, sup>>

----------------------------------------------------------------------------
(* Text.  A text is a sequence of tokens: a label, a blank, or one         *)
(* character.  A hardware address is 17 character tokens.                  *)

None == <<>>
Unset == <<"unset">>

HexLower == {"0","1","2","3","4","5","6","7","8","9","a","b","c","d","e","f"}

\* str.lower() on one character, and the case folding of re.IGNORECASE
Lower(c) ==
    CASE c = "A" -> "a" [] c = "B" -> "b" [] c = "C" -> "c"
      [] c = "D" -> "d" [] c = "E" -> "e" [] c = "F" -> "f"
      [] c = "Ethernet address" -> "ethernet address"
      [] c = "ETHERNET ADDRESS" -> "ethernet address"
      [] c = "HW address" -> "hw address"
      [] c = "L2 address" -> "l2 address"
      [] OTHER -> c

LowerAll(s) == [i \in 1..Len(s) |-> Lower(s[i])]

\* \s
IsSpace(c) == c \in {" ", "\n", "\t"}

\* [0-9a-f:] under re.IGNORECASE
InMacClass(c) == Lower(c) \in HexLower \cup {":"}

\* {17}
MacChars == 17

\* number of whitespace tokens of `text` from position i on
RECURSIVE SpaceRun(_, _)
SpaceRun(text, i) ==
    IF i <= Len(text) /\ IsSpace(text[i]) THEN 1 + SpaceRun(text, i + 1) ELSE 0

\* <label>\s+([0-9a-f:]{17}) matched with the label at position i: group(1) or None
MatchAt(labels, text, i) ==
    LET w == SpaceRun(text, i + 1)
        s == i + 1 + w
    IN  IF /\ Lower(text[i]) \in labels
           /\ w >= 1
           /\ s + MacChars - 1 <= Len(text)
           /\ \A k \in s..(s + MacChars - 1) : InMacClass(text[k])
        THEN SubSeq(text, s, s + MacChars - 1)
        ELSE None

\* re.search: the leftmost match
Search(labels, text) ==
    LET hits == {i \in 1..Len(text) : MatchAt(labels, text, i) # None}
    IN  IF hits = {} THEN None
        ELSE MatchAt(labels, text, CHOOSE i \in hits : \A j \in hits : i <= j)

HardwareLabels == {"ethernet address"}
OtherLabels == {"hw address", "l2 address", "mac"}

\* the list with its first two commands exchanged
commands_Swapped == <<"show interface", "show hardware-interfaces", "show interface addr">>

\* the list `commands`, most reliable first
commands == <<"show hardware-interfaces", "show interface", "show interface addr">>

\* the regular expression chosen for a command: "hardware-interfaces" in cmd
LabelsFor(s) ==
    IF commands[s] = "show hardware-interfaces" THEN HardwareLabels ELSE OtherLabels

mac_match(s, stdout) == Search(LabelsFor(s), stdout)

\* mac.startswith("02:fe:")
VppPrefix == <<"0", "2", ":", "f", "e", ":">>
startswith(m, p) == Len(m) >= Len(p) /\ SubSeq(m, 1, Len(p)) = p

\* the loop body without the startswith("02:fe:") validation
StrategyYield_NoPrefixCheck(s, r) ==
    IF r.kind = "ok" THEN LowerAll(mac_match(s, r.out)) ELSE None

\* The body of the `for cmd in commands` loop for one answer: the address
\* the command yields, or None.
StrategyYield(s, r) ==
    IF r.kind = "ok"
    THEN LET m == mac_match(s, r.out)
         IN  IF m # None /\ startswith(LowerAll(m), VppPrefix)
             THEN LowerAll(m)
             ELSE None
    ELSE None

\* The address the loop body logs as ignored for one answer, or None.
StrategyIgnored(s, r) ==
    IF r.kind = "ok"
    THEN LET m == mac_match(s, r.out)
         IN  IF m # None /\ ~startswith(LowerAll(m), VppPrefix)
             THEN LowerAll(m)
             ELSE None
    ELSE None

----------------------------------------------------------------------------
(* Topology as the code has it.                                            *)

Names == {"vxlan-processor", "security-processor", "destination", "chain-gcp"}

\* the two connections learn_and_update_all_macs handles
Edges == <<
    [src |-> "vxlan-processor", srcIf |-> "host-eth1", ip |-> "172.20.101.20",
     dst |-> "security-processor", dstIf |-> "host-eth0"],
    [src |-> "security-processor", srcIf |-> "host-eth1", ip |-> "172.20.102.20",
     dst |-> "destination", dstIf |-> "host-eth0"] >>

\* containers_interfaces of enable_arp_learning, flattened in iteration order
containers_interfaces == <<
    [node |-> "vxlan-processor", iface |-> "host-eth0"],
    [node |-> "vxlan-processor", iface |-> "host-eth1"],
    [node |-> "security-processor", iface |-> "host-eth0"],
    [node |-> "security-processor", iface |-> "host-eth1"],
    [node |-> "destination", iface |-> "host-eth0"] >>

max_wait == 30

MaxContainers == 3

Range(s) == {s[i] : i \in 1..Len(s)}

\* the configurations: lists of distinct container names
Configs ==
    {c \in UNION {[1..n -> Names] : n \in 0..MaxContainers} :
        \A i, j \in 1..Len(c) : i # j => c[i] # c[j]}

\* a test of the source container alone
EdgeApplicable_SourceOnly(e) == Edges[e].src \in Range(containers)

\* "<src>" in containers_in_this_mode and "<dst>" in containers_in_this_mode
EdgeApplicable(e) ==
    Edges[e].src \in Range(containers) /\ Edges[e].dst \in Range(containers)

----------------------------------------------------------------------------
(* Answers of a node.                                                      *)

Sp == " "
VppMacA == <<"0","2",":","f","e",":","1","1",":","2","2",":","3","3",":","4","4">>
VppMacUpper == <<"0","2",":","F","E",":","A","A",":","B","B",":","C","C",":","D","D">>
BridgeMac == <<"0","2",":","4","2",":","a","c",":","1","4",":","6","5",":","1","4">>
OtherMac == <<"a","a",":","b","b",":","c","c",":","d","d",":","e","e",":","f","f">>

\* what a node-wide command prints for a node with two interfaces whose
\* addresses both start with 02:fe: : one entry per interface, the
\* interface's name first
Listing ==
    <<"host-eth1", "\n", "HW address", Sp>> \o VppMacUpper
        \o <<"\n", "host-eth0", "\n", "HW address", Sp>> \o VppMacA

\* what a node may print: the address of the interface asked for; another
\* interface's addresses first; an upper-case listing; an address cut short;
\* the listing of all its interfaces
Texts == {
    Listing,
    <<"Ethernet address", Sp>> \o VppMacA,
    <<"ETHERNET ADDRESS", Sp>> \o BridgeMac \o <<"\n", "L2 address", Sp>> \o OtherMac
        \o <<"\n", "mac", Sp>> \o VppMacA,
    <<"HW address", Sp, Sp>> \o VppMacUpper,
    <<"Ethernet address", Sp>> \o SubSeq(VppMacA, 1, 16) \o <<"\n", "HW address">> \o VppMacA }

Replies ==
    {[kind |-> "ok", out |-> t] : t \in Texts}
    \cup {[kind |-> "err", out |-> <<"HW address", Sp>> \o VppMacA],
          [kind |-> "timeout", out |-> <<>>],
          [kind |-> "exc", out |-> <<>>]}

Outcomes == {"ok", "err", "timeout", "exc"}

NoReply == [kind |-> "none", out |-> <<>>]

----------------------------------------------------------------------------
(* Control flow.                                                           *)

At(pc, idx, edge, strat) == [pc |-> pc, idx |-> idx, edge |-> edge, strat |-> strat]

\* the verification loop, then the return
AtVerify(i) ==
    IF i <= Len(containers) THEN At("verify", i, 0, 0) ELSE At("return", 0, 0, 0)

\* the `if ... in containers_in_this_mode` blocks, from block k on
RECURSIVE AtEdge(_)
AtEdge(k) ==
    IF k > Len(Edges) THEN AtVerify(1)
    ELSE IF EdgeApplicable(k) THEN At("discover", 0, k, 1)
    ELSE AtEdge(k + 1)

\* the readiness loop, from container i on
AtReady(i) ==
    IF i <= Len(containers) THEN At("ready", i, 0, 0) ELSE AtEdge(1)

\* the promiscuous-mode loop, from pair i on, then learn_and_update_all_macs
AtPromisc(i) ==
    IF i <= Len(containers_interfaces) THEN At("promisc", i, 0, 0) ELSE AtReady(1)

Cmd(kind, node, what, iface, ip, m) ==
    [kind |-> kind, node |-> node, what |-> what, iface |-> iface, ip |-> ip, mac |-> m]

\* the neighbor table of a node is a set of entries
Entry(iface, ip, m) == [iface |-> iface, ip |-> ip, mac |-> m]

\* what `vppctl set ip neighbor <interface> <ip> <mac>` does to a node's
\* table when it exits with status 0: the entry of (interface, ip) is set to
\* the given address
SetIpNeighbor(tbl, c) ==
    {x \in tbl : ~(x.iface = c.iface /\ x.ip = c.ip)} \cup {Entry(c.iface, c.ip, c.mac)}

\* the children the entrypoint starts, in the order of its start_process calls
StartList == <<"FRR", "VPP", "Kea-DHCP4", "Kea-DHCP6">>

\* the entrypoint is not running
SupIdle == [pc |-> "idle", idx |-> 0, polls |-> 0, processes |-> <<>>,
            child |-> [n \in {StartList[i] : i \in 1..Len(StartList)} |-> "none"],
            signalled |-> <<>>, exit |-> "none", via |-> "none"]

\* ContainerManager.start_containers has not been called
MgrIdle == [pc |-> "idle", idx |-> 0, step |-> 0, ifaces |-> <<>>, cmds |-> <<>>, result |-> "none"]

\* commands started without waiting for them (Popen instead of run) in
\* enable_arp_learning
Blocking_PromiscDetached(kind) == kind # "promisc"

\* subprocess.run returns (or raises TimeoutExpired after killing the
\* command) only when the command has ended: every call is blocking
Blocking(kind) == TRUE

\* the commands outstanding on the nodes once the call of this kind to
\* node n has returned
AfterCall(b, kind, n) == IF Blocking(kind) THEN b ELSE [b EXCEPT ![n] = @ + 1]

NoSnap == [node |-> "", ok |-> FALSE, out |-> {}]

NoPrev == [result |-> "none", mac |-> [e \in 1..Len(Edges) |-> Unset], nbr |-> [n \in Names |-> {}]]

LearnerInit ==
    /\ containers \in Configs
    /\ ctl = AtPromisc(1)
    /\ plast = "none"
    /\ wait_count = 0
    /\ tries = 0
    /\ ready = {}
    /\ timed_out = {}
    /\ last = NoReply
    /\ lastEdge = 0
    /\ mac = [e \in 1..Len(Edges) |-> Unset]
    /\ found_by = [e \in 1..Len(Edges) |-> 0]
    /\ ignored = {}
    /\ wres = [e \in 1..Len(Edges) |-> "none"]
    /\ success = TRUE
    /\ result = "none"
    /\ cmds = <<>>
    /\ nbr = [n \in Names |-> {}]
    /\ lastGood = [e \in 1..Len(Edges) |-> Unset]
    /\ lastSnap = NoSnap
    /\ run = 1
    /\ prev = NoPrev
    /\ busy = [n \in Names |-> 0]
    /\ cancelled = FALSE

\* ... and the ContainerManager has not been asked to start anything
Init == LearnerInit /\ mgr = MgrIdle /\ sup = SupIdle

\* a loop without the try/except around the command
PromiscCaught_None(r) == FALSE

\* `except Exception as e: log_warning(...)` around the promiscuous-mode
\* command: what it swallows.  The exit status is never looked at.
PromiscCaught(r) == r \in {"timeout", "exc"}

\* enable_arp_learning: one `set interface promiscuous on`; every outcome is
\* ignored or caught
EnablePromisc ==
    /\ ctl.pc = "promisc"
    /\ \E r \in Outcomes :
         LET p == containers_interfaces[ctl.idx]
         IN  /\ cmds' = Append(cmds, Cmd("promisc", p.node, "set interface promiscuous on",
                                          p.iface, "", None))
             /\ plast' = r
             /\ busy' = AfterCall(busy, "promisc", p.node)
             /\ IF r \in {"timeout", "exc"} /\ ~PromiscCaught(r)
                THEN /\ result' = "raised"
                     /\ ctl' = At("done", 0, 0, 0)
                ELSE /\ ctl' = AtPromisc(ctl.idx + 1)
                     /\ UNCHANGED result
    /\ UNCHANGED <<containers, wait_count, tries, ready, timed_out, last, lastEdge, mac,
                   found_by, ignored, wres, success, nbr, lastGood, lastSnap, run, prev, cancelled, mgr,
                   sup>>

\* a probe that only fails on a timeout (no returncode check)
ProbeSucceeded_NotTimeout(r) == r # "timeout"

\* a loop that never leaves on an answer (no `break`)
ProbeSucceeded_NoBreak(r) == FALSE

\* result.returncode == 0 of the `show version` probe
ProbeSucceeded(r) == r = "ok"

\* `except subprocess.TimeoutExpired: pass` instead of the bare except
ProbeCaught_TimeoutOnly(r) == r = "timeout"

\* the bare `except: pass` around the probe: what it swallows
ProbeCaught(r) == r \in {"timeout", "exc"}

\* `if wait_count > max_wait`: one probe more than the limit
GateExhausted_OffByOne(wc) == wc > max_wait

\* `if wait_count >= max_wait`, which is also the negation of the loop test
GateExhausted(wc) == wc >= max_wait

\* a gate that logs the timeout and goes on to the next container
AfterGateTimeout_NextContainer(i) == AtReady(i + 1)

\* `return False` inside the readiness loop: the run is over when container i
\* has used up its probes
AfterGateTimeout(i) == At("done", 0, 0, 0)

\* the readiness loop: one `show version` probe.  `ready` records the nodes
\* that did answer with status 0, whatever the loop makes of the answer.
Probe ==
    /\ ctl.pc = "ready"
    /\ \E r \in Outcomes :
         LET n == containers[ctl.idx]
         IN  /\ ready' = IF r = "ok" THEN ready \cup {n} ELSE ready
             /\ busy' = AfterCall(busy, "probe", n)
             /\ IF ProbeSucceeded(r)
                THEN /\ wait_count' = 0
                     /\ tries' = wait_count + 1
                     /\ ctl' = AtReady(ctl.idx + 1)
                     /\ UNCHANGED <<timed_out, result>>
                ELSE IF r \in {"timeout", "exc"} /\ ~ProbeCaught(r)
                THEN /\ result' = "raised"
                     /\ tries' = 0
                     /\ ctl' = At("done", 0, 0, 0)
                     /\ UNCHANGED <<timed_out, wait_count>>
                ELSE IF GateExhausted(wait_count + 1)
                THEN /\ timed_out' = timed_out \cup {n}
                     /\ wait_count' = wait_count + 1
                     /\ tries' = 0
                     /\ result' = "False"
                     /\ ctl' = AfterGateTimeout(ctl.idx)
                ELSE /\ wait_count' = wait_count + 1
                     /\ tries' = 0
                     /\ UNCHANGED <<timed_out, result, ctl>>
    /\ plast' = "none"
    /\ UNCHANGED <<containers, last, lastEdge, mac, found_by, ignored, wres, success, cmds,
                   nbr, lastGood, lastSnap, run, prev, cancelled, mgr,
                   sup>>

\* a loop that gives up at the first command that yields nothing
Continues_Never(r) == FALSE

\* a loop without the `except Exception: continue` handler
Continues_ExceptExc(r) == r.kind # "exc"

\* the inner `except ...: continue` handlers of the discovery loop: whether
\* the loop goes on after this answer
Continues(r) == TRUE

\* a timed-out discovery command fails the run even when a later command
\* finds the address
Surfaced_Timeout(r) == r.kind = "timeout"

\* the handlers of a discovery command that failed only log and `continue`,
\* and a command that exits with an error or prints no accepted address
\* falls through to the next one: nothing of it reaches the caller
Surfaced(r) == FALSE

\* a test that only asks whether discovery returned at all: None passes
Truthy_AnyReturn(m) == m # Unset

\* the update issued without the `if security_mac:` test
Truthy_Always(m) == TRUE

\* `if security_mac:` / `if destination_mac:`
Truthy(m) == m # None

\* a write that failed is issued once more
AfterEdge_RetryWrite(e, ok) ==
    IF ~ok /\ mac[e] # Unset /\ mac[e] # None /\ wres[e] = "none"
    THEN At("write", 0, e, 0)
    ELSE AtEdge(e + 1)

\* a failed edge ends the edge processing (return False at once)
AfterEdge_FailFast(e, ok) == IF ok THEN AtEdge(e + 1) ELSE At("return", 0, 0, 0)

\* after the block of edge e: the next `if ... in containers_in_this_mode`
\* block, whether or not the edge succeeded
AfterEdge(e, ok) == AtEdge(e + 1)

\* discover_vpp_interface_mac: one command of the list
Discover ==
    /\ ctl.pc = "discover"
    /\ \E r \in Replies :
         LET e == ctl.edge
             s == ctl.strat
             y == StrategyYield(s, r)
             g == StrategyIgnored(s, r)
             returns == y # None \/ s = Len(commands) \/ ~Continues(r)
         IN  /\ last' = r
             /\ lastEdge' = e
             /\ busy' = AfterCall(busy, "discover", Edges[e].dst)
             /\ cmds' = Append(cmds, Cmd("discover", Edges[e].dst, commands[s],
                                          Edges[e].dstIf, "", None))
             /\ ignored' = (IF s = 1 THEN {} ELSE ignored)
                              \cup (IF g # None THEN {g} ELSE {})
             /\ IF ~returns
                THEN /\ ctl' = At("discover", 0, e, s + 1)
                     /\ success' = (success /\ ~Surfaced(r))
                     /\ UNCHANGED <<mac, found_by>>
                ELSE /\ mac' = [mac EXCEPT ![e] = y]
                     /\ found_by' = [found_by EXCEPT ![e] = IF y # None THEN s ELSE 0]
                     /\ IF Truthy(y)
                        THEN /\ ctl' = At("write", 0, e, 0)
                             /\ UNCHANGED success
                        ELSE /\ success' = FALSE
                             /\ ctl' = AfterEdge(e, FALSE)
    /\ plast' = "none"
    /\ tries' = 0
    /\ UNCHANGED <<containers, wait_count, ready, timed_out, wres, result,
                   nbr, lastGood, lastSnap, run, prev, cancelled, mgr,
                   sup>>

\* the write addressed to the other edge's target address
WriteCmd_OtherTarget(e) ==
    Cmd("write", Edges[e].src, "set ip neighbor", Edges[e].srcIf,
        Edges[(e % Len(Edges)) + 1].ip, mac[e])

\* the write carrying the variable of the other edge's discovery
WriteCmd_OtherAddress(e) ==
    Cmd("write", Edges[e].src, "set ip neighbor", Edges[e].srcIf, Edges[e].ip,
        mac[(e % Len(Edges)) + 1])

\* the write sent to the node the address was read from
WriteCmd_OnTarget(e) ==
    Cmd("write", Edges[e].dst, "set ip neighbor", Edges[e].srcIf, Edges[e].ip, mac[e])

\* the write left on the interface the address was read from
WriteCmd_DiscoveryInterface(e) ==
    Cmd("write", Edges[e].src, "set ip neighbor", Edges[e].dstIf, Edges[e].ip, mac[e])

\* the arguments learn_and_update_all_macs passes to update_neighbor_table,
\* as update_neighbor_table puts them on the command line
WriteCmd(e) ==
    Cmd("write", Edges[e].src, "set ip neighbor", Edges[e].srcIf, Edges[e].ip, mac[e])

\* an update that reports True whatever the exit status
WriteSucceeded_Always(r) == TRUE

\* result.returncode == 0 of `set ip neighbor`; a timeout or any other
\* exception makes update_neighbor_table return False
WriteSucceeded(r) == r = "ok"

\* `except subprocess.TimeoutExpired` instead of `except Exception`
WriteCaught_TimeoutOnly(r) == r = "timeout"

\* `except Exception as e: ... return False` of update_neighbor_table
WriteCaught(r) == r \in {"timeout", "exc"}

\* update_neighbor_table for the edge whose address was discovered.  The
\* node applies the command exactly when it exits with status 0.
Write ==
    /\ ctl.pc = "write"
    /\ \E r \in Outcomes :
         LET e == ctl.edge
             c == WriteCmd(e)
         IN  /\ cmds' = Append(cmds, c)
             /\ wres' = [wres EXCEPT ![e] = r]
             /\ busy' = AfterCall(busy, "write", c.node)
             /\ nbr' = IF r = "ok" THEN [nbr EXCEPT ![c.node] = SetIpNeighbor(@, c)] ELSE nbr
             /\ lastGood' = IF r = "ok" THEN [lastGood EXCEPT ![e] = c.mac] ELSE lastGood
             /\ IF r \in {"timeout", "exc"} /\ ~WriteCaught(r)
                THEN /\ result' = "raised"
                     /\ ctl' = At("done", 0, 0, 0)
                     /\ UNCHANGED success
                ELSE /\ success' = (success /\ WriteSucceeded(r))
                     /\ ctl' = AfterEdge(e, WriteSucceeded(r))
                     /\ UNCHANGED result
    /\ plast' = "none"
    /\ tries' = 0
    /\ UNCHANGED <<containers, wait_count, ready, timed_out, last, lastEdge, mac,
                   found_by, ignored, lastSnap, run, prev, cancelled, mgr,
                   sup>>

\* what verify_neighbor_table returns: result.stdout on status 0, else None
VerifyReturn(r, stdout) ==
    IF r = "ok" THEN [ok |-> TRUE, out |-> stdout] ELSE [ok |-> FALSE, out |-> {}]

\* a verification whose failure fails the run
SuccessAfterVerify_Judged(s, snap) == s /\ snap.ok

\* `self.verify_neighbor_table(container_name)` is an expression statement:
\* the returned value is dropped and `success` stays as it was
SuccessAfterVerify(s, snap) == s

\* verify_neighbor_table: one `show ip neighbors`; the node prints its table
Verify ==
    /\ ctl.pc = "verify"
    /\ \E r \in Outcomes :
         LET n == containers[ctl.idx]
             snap == VerifyReturn(r, nbr[n])
         IN  /\ cmds' = Append(cmds, Cmd("dump", n, "show ip neighbors", "", "", None))
             /\ lastSnap' = [node |-> n, ok |-> snap.ok, out |-> snap.out]
             /\ busy' = AfterCall(busy, "dump", n)
             /\ success' = SuccessAfterVerify(success, snap)
             /\ ctl' = AtVerify(ctl.idx + 1)
    /\ last' = NoReply
    /\ lastEdge' = 0
    /\ ignored' = {}
    /\ plast' = "none"
    /\ tries' = 0
    /\ UNCHANGED <<containers, wait_count, ready, timed_out, mac, found_by, wres,
                   result, nbr, lastGood, run, prev, cancelled, mgr,
                   sup>>

\* the end of learn_and_update_all_macs, handed on by run_dynamic_mac_learning
Return ==
    /\ ctl.pc = "return"
    /\ result' = IF success THEN "True" ELSE "False"
    /\ ctl' = At("done", 0, 0, 0)
    /\ plast' = "none"
    /\ tries' = 0
    /\ UNCHANGED <<containers, wait_count, ready, timed_out, last, lastEdge, mac,
                   found_by, ignored, wres, success, cmds, nbr, lastGood, lastSnap, run, prev, cancelled, mgr,
                   busy,
                   sup>>

Next == EnablePromisc \/ Probe \/ Discover \/ Write \/ Verify \/ Return

Spec == Init /\ [][Next]_vars

----------------------------------------------------------------------------
(* Two runs in succession on the same nodes.                               *)

MaxRuns == 2

\* the chain as deployed: the three containers of the hardcoded topology
ChainConfig == <<"vxlan-processor", "security-processor", "destination">>

InitTwice == Init /\ containers = ChainConfig

\* run_dynamic_mac_learning called again: a new DynamicMACLearner and new
\* locals; only the nodes keep their tables
Rerun ==
    /\ ctl.pc = "done"
    /\ run < MaxRuns
    /\ run' = run + 1
    /\ prev' = [result |-> result,
                mac |-> IF result = "True" THEN mac ELSE NoPrev.mac,
                nbr |-> nbr]
    /\ ctl' = AtPromisc(1)
    /\ plast' = "none"
    /\ wait_count' = 0
    /\ tries' = 0
    /\ ready' = {}
    /\ timed_out' = {}
    /\ last' = NoReply
    /\ lastEdge' = 0
    /\ mac' = [e \in 1..Len(Edges) |-> Unset]
    /\ found_by' = [e \in 1..Len(Edges) |-> 0]
    /\ ignored' = {}
    /\ wres' = [e \in 1..Len(Edges) |-> "none"]
    /\ success' = TRUE
    /\ result' = "none"
    /\ cmds' = <<>>
    /\ lastSnap' = NoSnap
    /\ UNCHANGED <<containers, nbr, lastGood, busy, cancelled, mgr,
                   sup>>

NextTwice == Next \/ Rerun

SpecTwice == InitTwice /\ [][NextTwice]_vars

----------------------------------------------------------------------------
(* A run whose caller asks it to stop.                                     *)

\* the caller triggers the cancellation signal while the run is under way.
\* learn_and_update_all_macs takes no such signal and reads no flag between
\* its commands, so no action of the run looks at `cancelled`.
Cancel ==
    /\ ~cancelled
    /\ ctl.pc # "done"
    /\ cancelled' = TRUE
    /\ UNCHANGED <<containers, ctl, plast, wait_count, tries, ready, timed_out, last, lastEdge,
                   mac, found_by, ignored, wres, success, result, cmds, nbr, lastGood, lastSnap,
                   run, prev, busy, mgr,
                   sup>>

NextCancel == Next \/ Cancel

SpecCancel == Init /\ [][NextCancel]_vars

----------------------------------------------------------------------------
(* ContainerManager.start_containers.                                      *)

\* the most interfaces a container of the configuration has
MaxInterfaces == 2

\* the container names in the order of Python's string comparison
NameOrder == <<"chain-gcp", "destination", "security-processor", "vxlan-processor">>

\* sorted(self.CONTAINERS.items()): the configured names in string order
RECURSIVE SortedFrom(_, _)
SortedFrom(S, i) ==
    IF i > Len(NameOrder) THEN <<>>
    ELSE (IF NameOrder[i] \in S THEN <<NameOrder[i]>> ELSE <<>>) \o SortedFrom(S, i + 1)

sorted(S) == SortedFrom(S, 1)

\* the commands _run_single_container issues for a container with k
\* interfaces: docker run on the first interface's network, one docker network
\* connect for each further interface, start-vpp.sh, the config script
ContainerCommands(k) ==
    <<"run">> \o [i \in 1..(k - 1) |-> "connect"] \o <<"vpp", "config">>

\* how a docker command of _run_single_container can end: exit status 0, a
\* non-zero exit status (check=True raises CalledProcessError), or docker
\* cannot be executed (OSError); no call has a timeout
StartOutcomes == {"ok", "err", "exc"}

\* only CalledProcessError is handled
StartCaught_CalledProcessErrorOnly(r) == r = "err"

\* the except clauses of start_containers: CalledProcessError and Exception
StartCaught(r) == r \in {"err", "exc"}

\* the manager is constructed with the configured containers
InitStart ==
    /\ LearnerInit
    /\ \E f \in [Range(containers) -> 1..MaxInterfaces] : mgr = [MgrIdle EXCEPT !.ifaces = f]
    /\ sup = SupIdle

\* start_containers is called: the loop is at the first container in sorted
\* order, _run_single_container at its first command
StartContainers ==
    /\ mgr.pc = "idle"
    /\ mgr' = [mgr EXCEPT !.pc = "running", !.idx = 1, !.step = 1]
    /\ UNCHANGED <<containers, ctl, plast, wait_count, tries, ready, timed_out, last, lastEdge,
                   mac, found_by, ignored, wres, success, result, cmds, nbr, lastGood, lastSnap,
                   run, prev, busy, cancelled,
                   sup>>

\* the next subprocess.run(..., check=True) of _run_single_container
RunCommand ==
    /\ mgr.pc = "running"
    /\ mgr.idx <= Len(sorted(Range(containers)))
    /\ LET name == sorted(Range(containers))[mgr.idx]
           todo == ContainerCommands(mgr.ifaces[name])
       IN \E r \in StartOutcomes :
            LET issued == Append(mgr.cmds, [node |-> name, kind |-> todo[mgr.step], out |-> r])
            IN mgr' =
                IF r = "ok"
                THEN IF mgr.step < Len(todo)
                     THEN [mgr EXCEPT !.cmds = issued, !.step = @ + 1]
                     ELSE [mgr EXCEPT !.cmds = issued, !.idx = @ + 1, !.step = 1]
                ELSE [mgr EXCEPT !.cmds = issued, !.pc = "done",
                                 !.result = IF StartCaught(r) THEN "False" ELSE "raised"]
    /\ UNCHANGED <<containers, ctl, plast, wait_count, tries, ready, timed_out, last, lastEdge,
                   mac, found_by, ignored, wres, success, result, cmds, nbr, lastGood, lastSnap,
                   run, prev, busy, cancelled,
                   sup>>

\* the loop has run every container: return True
StartReturn ==
    /\ mgr.pc = "running"
    /\ mgr.idx > Len(sorted(Range(containers)))
    /\ mgr' = [mgr EXCEPT !.pc = "done", !.result = "True"]
    /\ UNCHANGED <<containers, ctl, plast, wait_count, tries, ready, timed_out, last, lastEdge,
                   mac, found_by, ignored, wres, success, result, cmds, nbr, lastGood, lastSnap,
                   run, prev, busy, cancelled,
                   sup>>

NextStart == StartContainers \/ RunCommand \/ StartReturn

SpecStart == InitStart /\ [][NextStart]_vars

----------------------------------------------------------------------------
(* ContainerManager.stop_containers, called after start_containers.        *)

\* reversed(list(self.CONTAINERS.items())): the configured names, last first
reversed(s) == [i \in 1..Len(s) |-> s[Len(s) - i + 1]]

\* how `docker rm -f` can end for _stop_single_container: subprocess.run has
\* no check and no timeout, so a non-zero exit status is not an exception;
\* only a docker that cannot be executed raises
StopOutcomes == {"ok", "err", "exc"}

\* whether the loop of stop_containers goes on after this outcome: an
\* exception leaves the loop for `except Exception`
StopContinues(r) == r # "exc"

\* stop_containers is called once start_containers has returned
StopContainers ==
    /\ mgr.pc = "done"
    /\ mgr' = [mgr EXCEPT !.pc = "stopping", !.idx = 1, !.step = 0, !.result = "none"]
    /\ UNCHANGED <<containers, ctl, plast, wait_count, tries, ready, timed_out, last, lastEdge,
                   mac, found_by, ignored, wres, success, result, cmds, nbr, lastGood, lastSnap,
                   run, prev, busy, cancelled,
                   sup>>

\* _stop_single_container for the next container of the reversed list
RemoveCommand ==
    /\ mgr.pc = "stopping"
    /\ mgr.idx <= Len(containers)
    /\ \E r \in StopOutcomes :
         LET issued == Append(mgr.cmds,
                              [node |-> reversed(containers)[mgr.idx], kind |-> "rm", out |-> r])
         IN  mgr' = IF StopContinues(r)
                    THEN [mgr EXCEPT !.cmds = issued, !.idx = @ + 1]
                    ELSE [mgr EXCEPT !.cmds = issued, !.pc = "stopped", !.result = "False"]
    /\ UNCHANGED <<containers, ctl, plast, wait_count, tries, ready, timed_out, last, lastEdge,
                   mac, found_by, ignored, wres, success, result, cmds, nbr, lastGood, lastSnap,
                   run, prev, busy, cancelled,
                   sup>>

\* the loop has taken every container: return True
StopReturn ==
    /\ mgr.pc = "stopping"
    /\ mgr.idx > Len(containers)
    /\ mgr' = [mgr EXCEPT !.pc = "stopped", !.result = "True"]
    /\ UNCHANGED <<containers, ctl, plast, wait_count, tries, ready, timed_out, last, lastEdge,
                   mac, found_by, ignored, wres, success, result, cmds, nbr, lastGood, lastSnap,
                   run, prev, busy, cancelled,
                   sup>>

NextStop == NextStart \/ StopContainers \/ RemoveCommand \/ StopReturn

SpecStop == InitStart /\ [][NextStop]_vars

----------------------------------------------------------------------------
(* The kea-frr-vpp entrypoint.                                             *)

\* range(10): the checks for the VPP socket
PollLimit == 10

\* the learner and the container manager take no part
Others == <<containers, ctl, plast, wait_count, tries, ready, timed_out, last, lastEdge, mac,
            found_by, ignored, wres, success, result, cmds, nbr, lastGood, lastSnap, run, prev,
            busy, cancelled, mgr>>

\* the script has been started: signal handlers registered, main() entered
InitEntry ==
    /\ LearnerInit /\ containers = ChainConfig
    /\ mgr = MgrIdle
    /\ sup = [SupIdle EXCEPT !.pc = "copy"]

\* sys.exit(code) in main or start_process: the interpreter leaves; nothing
\* is done to the children
SysExit(s, code, why) == [s EXCEPT !.pc = "exited", !.exit = code, !.via = why]

\* where main goes on after the start_process call number i
AfterStart(i) ==
    IF i = 2 THEN "poll" ELSE IF i = Len(StartList) THEN "monitor" ELSE "spawn"

\* signal_handler: terminate, in reverse order of the list, every process of
\* the list that poll() finds running; those in K outlast the wait and are
\* killed; then sys.exit(0)
signal_handler(s, K) ==
    LET Running(n) == s.child[n] = "running"
        hit == SelectSeq(reversed(s.processes), Running)
        Hit(n) == \E i \in 1..Len(hit) : hit[i] = n
    IN  [s EXCEPT !.pc = "exited", !.exit = 0, !.via = "handler",
                  !.signalled = hit,
                  !.child = [n \in DOMAIN s.child |->
                                IF Hit(n) THEN (IF n \in K THEN "killed" ELSE "terminated")
                                ELSE s.child[n]]]

\* steps 1 and 2 of main: the role is checked and the role's files are copied
Configure ==
    /\ sup.pc = "copy"
    /\ \E ok \in BOOLEAN :
         sup' = IF ok THEN [sup EXCEPT !.pc = "spawn", !.idx = 1]
                ELSE SysExit(sup, 1, "copy")
    /\ UNCHANGED Others

\* start_process, line 39: subprocess.Popen starts the child or raises
Popen ==
    /\ sup.pc = "spawn"
    /\ \E ok \in BOOLEAN :
         sup' = IF ok THEN [sup EXCEPT !.pc = "append", !.child[StartList[sup.idx]] = "running"]
                ELSE SysExit(sup, 1, "spawn")
    /\ UNCHANGED Others

\* start_process, line 40: processes.append(proc)
AppendProcess ==
    /\ sup.pc = "append"
    /\ sup' = [sup EXCEPT !.processes = Append(@, StartList[sup.idx]),
                          !.pc = AfterStart(sup.idx),
                          !.idx = IF sup.idx < Len(StartList) THEN @ + 1 ELSE @]
    /\ UNCHANGED Others

\* one round of the `for _ in range(10)` loop: the socket is there (break) or
\* not (sleep); the else branch of the loop exits after the last round
PollSocket ==
    /\ sup.pc = "poll"
    /\ sup.polls < PollLimit
    /\ \E there \in BOOLEAN :
         sup' = IF there THEN [sup EXCEPT !.pc = "config", !.polls = @ + 1]
                ELSE IF sup.polls + 1 = PollLimit
                THEN SysExit([sup EXCEPT !.polls = @ + 1], 1, "socket")
                ELSE [sup EXCEPT !.polls = @ + 1]
    /\ UNCHANGED Others

\* `vppctl exec <file>` with check=True: FileNotFoundError and
\* CalledProcessError are caught and exit with 1; any other exception is not
\* caught and ends the interpreter with status 1 as well
ApplyConfig ==
    /\ sup.pc = "config"
    /\ \E r \in {"ok", "err", "notfound", "exc"} :
         sup' = IF r = "ok" THEN [sup EXCEPT !.pc = "spawn"]
                ELSE SysExit(sup, 1, "config")
    /\ UNCHANGED Others

\* a child ends on its own
ChildExits ==
    /\ sup.pc \notin {"idle", "exited"}
    /\ \E n \in DOMAIN sup.child :
         /\ sup.child[n] = "running"
         /\ sup' = [sup EXCEPT !.child[n] = "exited"]
    /\ UNCHANGED Others

\* the monitor loop: os.wait() returns for a child that has ended, the
\* process sends itself SIGTERM and signal_handler runs
Monitor ==
    /\ sup.pc = "monitor"
    /\ \E n \in DOMAIN sup.child : sup.child[n] = "exited"
    /\ \E K \in SUBSET {n \in DOMAIN sup.child : sup.child[n] = "running"} :
         sup' = signal_handler(sup, K)
    /\ UNCHANGED Others

\* SIGTERM or SIGINT arrives from outside: the handler runs between two
\* instructions of main, wherever main is
Signal ==
    /\ sup.pc \notin {"idle", "exited"}
    /\ \E K \in SUBSET {n \in DOMAIN sup.child : sup.child[n] = "running"} :
         sup' = signal_handler(sup, K)
    /\ UNCHANGED Others

NextEntry ==
    Configure \/ Popen \/ AppendProcess \/ PollSocket \/ ApplyConfig \/ ChildExits
        \/ Monitor \/ Signal

SpecEntry == InitEntry /\ [][NextEntry]_vars

----------------------------------------------------------------------------------------------------------------------------------------
(* Properties.                                                             *)

EdgeIds == 1..Len(Edges)

\* the acceptance predicate: the address starts with 02:fe:
AcceptedAddress(m) ==
    Len(m) >= 6 /\ SubSeq(m, 1, 6) = <<"0", "2", ":", "f", "e", ":">>

\* positions in `cmds` of the discovery commands and of the writes of edge e
DiscoverIdx(e) ==
    {i \in DOMAIN cmds : cmds[i].kind = "discover" /\ cmds[i].node = Edges[e].dst
                          /\ cmds[i].iface = Edges[e].dstIf}
WriteIdx(e) ==
    {i \in DOMAIN cmds : cmds[i].kind = "write" /\ cmds[i].node = Edges[e].src
                          /\ cmds[i].iface = Edges[e].srcIf /\ cmds[i].ip = Edges[e].ip}

\* the discovery commands of edge e, in the order they were issued
DiscoverCmds(e) ==
    LET IsOfEdge(c) == c.kind = "discover" /\ c.node = Edges[e].dst
    IN  SelectSeq(cmds, IsOfEdge)

\* the address command s reports in answer r, lower-cased, or None
Reported(s, r) ==
    IF r.kind = "ok" /\ mac_match(s, r.out) # None THEN LowerAll(mac_match(s, r.out)) ELSE None

\* command s succeeds with an accepted address on answer r
Good(s, r) == Reported(s, r) # None /\ AcceptedAddress(Reported(s, r))

\* discover_vpp_interface_mac has returned for edge e
Returned(e) == mac[e] # Unset
Found(e) == mac[e] # Unset /\ mac[e] # None

\* the latest discovery command was the n-th of edge e and no command has
\* been issued since
JustAnswered(e, n) ==
    /\ lastEdge = e /\ Len(DiscoverCmds(e)) = n
    /\ cmds # <<>> /\ cmds[Len(cmds)].kind = "discover"

\* the rank order of the strategies
RankOrder == <<"show hardware-interfaces", "show interface", "show interface addr">>

\* C1: every hardware address carried by a neighbor-table write satisfies the
\* acceptance predicate (starts with 02:fe:); an address outside the accepted
\* address space that a discovery command reported is never written.
C1_WrittenAddressAccepted ==
    \A i \in DOMAIN cmds :
        cmds[i].kind = "write" =>
            /\ AcceptedAddress(cmds[i].mac)
            /\ \A e \in EdgeIds : (i \in WriteIdx(e) /\ lastEdge = e) => cmds[i].mac \notin ignored

\* a write was issued for an edge whose discovery had reported a rejected address
C1_Witness ==
    \E e \in EdgeIds : WriteIdx(e) # {} /\ lastEdge = e /\ ignored # {}

\* C2: when the first command fails or reports a rejected address and the
\* second succeeds with an accepted address, the discovery returns the second
\* command's address, and the edge's write carries the returned address.
C2_FallbackUsesSecondStrategy ==
    \A e \in EdgeIds :
        /\ (JustAnswered(e, 1) /\ ~Good(1, last)) => ctl = At("discover", 0, e, 2)
        /\ (JustAnswered(e, 2) /\ Good(2, last))
              => /\ mac[e] = Reported(2, last)
                 /\ found_by[e] = 2
                 /\ mac[e] \notin ignored
                 /\ ctl = At("write", 0, e, 0)
        /\ \A i \in WriteIdx(e) : Found(e) /\ cmds[i].mac = mac[e]

\* the first command reported a rejected address, the second an accepted one,
\* and the write of the edge is about to be issued
C2_Witness ==
    \E e \in EdgeIds :
        /\ JustAnswered(e, 2) /\ Good(2, last) /\ ignored # {}
        /\ mac[e] = Reported(2, last) /\ ctl.pc = "write"

\* C3: the discovery commands of an edge are issued in rank order, none
\* before every earlier one was tried, and none after a command has yielded
\* an accepted address.
C3_RankOrderFirstWins ==
    \A e \in EdgeIds :
        LET D == DiscoverCmds(e)
        IN  /\ Len(D) <= Len(RankOrder)
            /\ \A k \in 1..Len(D) : D[k].what = RankOrder[k]
            /\ \A n \in 1..Len(RankOrder) :
                  (JustAnswered(e, n) /\ Good(n, last))
                      => (Found(e) /\ mac[e] = Reported(n, last) /\ ctl.pc = "write")
            /\ Found(e) => Len(D) = found_by[e]

\* the second command won, so the third was never issued, up to the end
C3_Witness ==
    \E e \in EdgeIds :
        /\ ctl.pc = "done" /\ Found(e) /\ found_by[e] = 2
        /\ Len(DiscoverCmds(e)) = 2

\* C4: the discovery returns None exactly when all three commands were
\* issued and none yielded an accepted address; a failed command only
\* advances to the next one.
C4_NotFoundIffExhausted ==
    \A e \in EdgeIds :
        /\ mac[e] = None => Len(DiscoverCmds(e)) = Len(commands)
        /\ \A n \in 1..Len(commands) :
              JustAnswered(e, n) =>
                  /\ mac[e] = None <=> (n = Len(commands) /\ ~Good(n, last))
                  /\ (n < Len(commands) /\ ~Good(n, last))
                        => (~Returned(e) /\ ctl = At("discover", 0, e, n + 1))

\* a discovery exhausted with an exception as the answer to its last command
C4_Witness ==
    \E e \in EdgeIds :
        /\ JustAnswered(e, 3) /\ mac[e] = None /\ last.kind = "exc"

\* C5: when a node never passes the readiness gate, every edge that does not
\* touch it is still discovered and written in that run.
C5_IsolationUnderNodeNotReady ==
    \A b \in timed_out :
        ctl.pc = "done" =>
            \A e \in EdgeIds :
                (EdgeApplicable(e) /\ Edges[e].src # b /\ Edges[e].dst # b)
                    => (Found(e) /\ wres[e] = "ok")

\* C6: when a node never becomes ready the run reports failure, no discovery
\* command and no write is issued for an edge touching the node, and nothing
\* is raised to the caller.
C6_NodeNotReadyReported ==
    /\ \A b \in timed_out :
          /\ ctl.pc = "done" /\ result = "False"
          /\ \A e \in EdgeIds :
                (Edges[e].src = b \/ Edges[e].dst = b)
                    => (DiscoverIdx(e) = {} /\ WriteIdx(e) = {})
    /\ (ctl.pc = "done" /\ Range(containers) # ready) => result = "False"

\* one node answered, a later one used up its thirty probes
C6_Witness ==
    /\ timed_out # {} /\ ready # {}
    /\ result = "False"

\* C7: a failed edge (NotFound or WriteFailed) blocks no other edge: every
\* applicable edge is attempted, is written when its own discovery succeeds,
\* and the run's result is a failure exactly when some edge failed.
C7_PerEdgeIsolation ==
    LET past == ctl.pc \in {"verify", "return"}
                  \/ (ctl.pc = "done" /\ Range(containers) = ready)
    IN  /\ past =>
              \A e \in EdgeIds : EdgeApplicable(e) =>
                  /\ DiscoverIdx(e) # {}
                  /\ Returned(e)
                  /\ Found(e) => (WriteIdx(e) # {} /\ wres[e] # "none")
        /\ (ctl.pc = "done" /\ Range(containers) = ready) =>
              (result = "True" <=>
                  \A e \in EdgeIds : EdgeApplicable(e) => (Found(e) /\ wres[e] = "ok"))

\* the first edge ended NotFound, the second was discovered and written
C7_Witness ==
    /\ ctl.pc = "done"
    /\ mac[1] = None
    /\ Found(2) /\ wres[2] = "ok" /\ WriteIdx(2) # {}
    /\ result = "False"

\* C8: the write of an edge comes after the edge's discovery has returned an
\* address, the neighbor-table dumps come after the writes have completed,
\* and no write is issued for an edge whose discovery returned None.
C8_DiscoverWriteVerifyOrder ==
    /\ \A e \in EdgeIds :
          /\ \A i \in WriteIdx(e) :
                /\ Found(e) /\ cmds[i].mac = mac[e]
                /\ DiscoverIdx(e) # {}
                /\ \A j \in DiscoverIdx(e) : j < i
          /\ mac[e] = None => WriteIdx(e) = {}
    /\ \A i \in DOMAIN cmds :
          cmds[i].kind = "dump" =>
              /\ \A j \in DOMAIN cmds : cmds[j].kind = "write" => j < i
              /\ \A e \in EdgeIds : WriteIdx(e) # {} => wres[e] # "none"
              /\ ctl.pc # "write"

\* the source node of a written edge has been dumped after the write
C8_Witness ==
    \E e \in EdgeIds : \E i \in WriteIdx(e) : \E j \in DOMAIN cmds :
        /\ cmds[j].kind = "dump" /\ cmds[j].node = Edges[e].src
        /\ i < j

\* C9: no discovery command and no write is issued for an edge before both
\* of its nodes have answered a liveness probe successfully in this run.
C9_EdgesGatedByReadiness ==
    /\ \A e \in EdgeIds :
          (DiscoverIdx(e) # {} \/ WriteIdx(e) # {})
              => (Edges[e].src \in ready /\ Edges[e].dst \in ready)
    /\ ctl.pc \in {"discover", "write"} =>
          (Edges[ctl.edge].src \in ready /\ Edges[ctl.edge].dst \in ready)

\* both edges were written in a run over three containers
C9_Witness ==
    /\ Len(containers) = 3
    /\ WriteIdx(1) # {} /\ WriteIdx(2) # {}
    /\ ready = Range(containers)

\* C10: no promiscuous-mode command is issued before every node has passed
\* the readiness gate and the discovery commands and writes have been issued,
\* and the neighbor-table dumps come after the promiscuous-mode commands.
C10_OneWayControlFlow ==
    \A i \in DOMAIN cmds :
        cmds[i].kind = "promisc" =>
            /\ Range(containers) \subseteq ready
            /\ \A j \in DOMAIN cmds : cmds[j].kind \in {"discover", "write"} => j < i
            /\ \A j \in DOMAIN cmds : cmds[j].kind = "dump" => i < j

\* C11: a container that answers a probe with status 0 is Ready at once: the
\* gate never stands at a container that has answered (no further probe of
\* it in the run), never times it out, and hands on with a fresh count and
\* an untouched result however many probes failed before the answer.
C11_ReadyOnFirstSuccess ==
    /\ ready \cap timed_out = {}
    /\ ctl.pc = "ready" =>
          /\ containers[ctl.idx] \notin ready
          /\ \A j \in 1..(ctl.idx - 1) : containers[j] \in ready
    /\ tries > 0 =>
          /\ wait_count = 0 /\ result = "none" /\ success
          /\ \E i \in 1..Len(containers) :
                /\ containers[i] \in ready
                /\ ctl = AtReady(i + 1)

\* the last container answered its thirtieth probe after 29 failed ones
C11_Witness ==
    /\ tries = max_wait
    /\ containers # <<>> /\ ready = Range(containers)
    /\ ctl.pc # "ready"

\* C12: the gate spends at most 30 probes on a container and ends each one
\* Ready or TimedOut; a container is TimedOut exactly when its 30 probes all
\* failed, and then the loop is over.
C12_BoundedPolling ==
    /\ wait_count <= max_wait /\ tries <= max_wait
    /\ ctl.pc = "ready" => wait_count < max_wait
    /\ (timed_out # {}) <=> (wait_count = max_wait)
    /\ \A n \in timed_out :
          /\ n \notin ready
          /\ timed_out = {n}
          /\ ctl.pc = "done"
    /\ ctl.pc \notin {"promisc", "ready"} =>
          \/ ready = Range(containers)
          \/ \E i \in 1..Len(containers) :
                /\ timed_out = {containers[i]}
                /\ ready = {containers[j] : j \in 1..(i - 1)}

\* the first container failed all thirty probes
C12_Witness ==
    /\ wait_count = max_wait
    /\ \E n \in timed_out : n = containers[1]
    /\ ready = {}

\* edge e reached Written in this run
Written(e) == Found(e) /\ wres[e] = "ok"

\* the rows a dump shows for the target address of edge e
RowsOf(e, out) == {x \in out : x.iface = Edges[e].srcIf /\ x.ip = Edges[e].ip}

ConvergedTables ==
    [n \in Names |->
        {Entry(Edges[e].srcIf, Edges[e].ip, mac[e]) : e \in {k \in EdgeIds : Edges[k].src = n}}]

C15_LastWriteWins ==
    /\ \A e \in EdgeIds :
          LET rows == RowsOf(e, nbr[Edges[e].src])
          IN  /\ Cardinality(rows) <= 1
              /\ rows = IF lastGood[e] = Unset THEN {}
                        ELSE {Entry(Edges[e].srcIf, Edges[e].ip, lastGood[e])}
    /\ \A n \in Names :
          nbr[n] \subseteq UNION {RowsOf(e, nbr[n]) : e \in {k \in EdgeIds : Edges[k].src = n}}

\* a write of the second run has replaced the address the first run wrote
C15_Witness ==
    \E e \in EdgeIds :
        /\ run > 1 /\ Written(e) /\ WriteIdx(e) # {}
        /\ prev.result = "True" /\ prev.mac[e] # mac[e]
        /\ RowsOf(e, prev.nbr[Edges[e].src]) = {Entry(Edges[e].srcIf, Edges[e].ip, prev.mac[e])}
        /\ RowsOf(e, nbr[Edges[e].src]) = {Entry(Edges[e].srcIf, Edges[e].ip, mac[e])}

\* C16: success is reported only for edges that were discovered, written and
\* then observed in the dump of their source node: when the run returns
\* True, the dump of an applicable edge's source node has succeeded and
\* shows the written address.  (The state keeps the latest dump, so the
\* statement is read on the node dumped last.)
C16_NoPartialState ==
    (ctl.pc = "done" /\ result = "True") =>
        \A e \in EdgeIds :
            (EdgeApplicable(e) /\ lastSnap.node = Edges[e].src) =>
                /\ Written(e)
                /\ lastSnap.ok
                /\ Entry(Edges[e].srcIf, Edges[e].ip, mac[e]) \in lastSnap.out

\* the promiscuous-mode commands issued so far, as (node, interface) pairs
PromiscIssued ==
    LET IsPromisc(c) == c.kind = "promisc"
        p == SelectSeq(cmds, IsPromisc)
    IN  [i \in 1..Len(p) |-> [node |-> p[i].node, iface |-> p[i].iface]]

\* C17: whatever the promiscuous-mode commands answer (error exit, timeout,
\* exception), the loop issues the command of every following pair, nothing
\* is raised, and the run stands exactly where it stands after a success:
\* at the next pair or at the readiness gate, with no result and no failure
\* recorded.
C17_PromiscBestEffort ==
    /\ result # "raised"
    /\ ctl.pc = "promisc" =>
          PromiscIssued = SubSeq(containers_interfaces, 1, ctl.idx - 1)
    /\ ctl.pc # "promisc" => PromiscIssued = containers_interfaces
    /\ plast # "none" =>
          /\ ctl = AtPromisc(Len(cmds) + 1)
          /\ result = "none" /\ success
          /\ ready = {} /\ timed_out = {} /\ wait_count = 0

\* the command of the first pair timed out and the second pair is next
C17_Witness ==
    /\ plast = "timeout"
    /\ Len(cmds) = 1
    /\ ctl = At("promisc", 2, 0, 0)

\* C18: the pairs that receive the promiscuous-mode command are the pairs of
\* the topology the learner was given and no others: once the loop is over,
\* the nodes that received the command are exactly the configured
\* containers.
C18_EnableAllCoversTopology ==
    ctl.pc # "promisc" =>
        {PromiscIssued[i].node : i \in DOMAIN PromiscIssued} = Range(containers)

\* the dumps issued so far
Dumps ==
    LET IsDump(c) == c.kind = "dump"
    IN  SelectSeq(cmds, IsDump)

\* C19: a successful dump returns the node's output as it is and a failed
\* one returns nothing; the dumps go to the configured containers in order,
\* one each, whatever the earlier dumps returned; no other command follows a
\* dump; and the result of the run is the one discovery and writes decided.
C19_VerifierNoJudgment ==
    /\ lastSnap.node # "" =>
          lastSnap.out = IF lastSnap.ok THEN nbr[lastSnap.node] ELSE {}
    /\ \A i \in 1..Len(Dumps) : Dumps[i].node = containers[i]
    /\ \A i, j \in DOMAIN cmds : (i < j /\ cmds[i].kind = "dump") => cmds[j].kind = "dump"
    /\ ctl.pc = "verify" => Len(Dumps) = ctl.idx - 1
    /\ (ctl.pc \in {"verify", "return"} \/ (ctl.pc = "done" /\ timed_out = {})) =>
          (success <=> \A e \in EdgeIds : EdgeApplicable(e) => Written(e))
    /\ (ctl.pc = "done" /\ timed_out = {}) =>
          /\ Len(Dumps) = Len(containers)
          /\ result = IF success THEN "True" ELSE "False"

\* the run returned True with an edge written although its last dump failed
C19_Witness ==
    /\ ctl.pc = "done" /\ result = "True"
    /\ lastSnap.node # "" /\ ~lastSnap.ok
    /\ \E e \in EdgeIds : Written(e)

\* an upper bound on the commands still to come, by position of the run
EdgeWork(k) == k * (Len(commands) + 1)
Rank ==
    LET tail == Len(containers) + 1
    IN  CASE ctl.pc = "done" -> 0
          [] ctl.pc = "return" -> 1
          [] ctl.pc = "verify" -> tail - ctl.idx + 1
          [] ctl.pc = "write" -> 1 + EdgeWork(Len(Edges) - ctl.edge) + tail
          [] ctl.pc = "discover" ->
                (Len(commands) - ctl.strat + 2) + EdgeWork(Len(Edges) - ctl.edge) + tail
          [] ctl.pc = "ready" ->
                (Len(containers) - ctl.idx + 1) * max_wait - wait_count
                    + EdgeWork(Len(Edges)) + tail
          [] ctl.pc = "promisc" ->
                (Len(containers_interfaces) - ctl.idx + 1) + Len(containers) * max_wait
                    + EdgeWork(Len(Edges)) + tail

\* the run can take its next step: the command at its position can be
\* issued, whatever the answer will be (for a discovery command this is the
\* guard of Discover written out: a valid edge and command, some answer)
CanStep ==
    CASE ctl.pc = "promisc" -> ENABLED EnablePromisc
      [] ctl.pc = "ready" -> ENABLED Probe
      [] ctl.pc = "discover" ->
            ctl.edge \in EdgeIds /\ ctl.strat \in DOMAIN commands /\ Replies # {}
      [] ctl.pc = "write" -> ENABLED Write
      [] ctl.pc = "verify" -> ENABLED Verify
      [] ctl.pc = "return" -> ENABLED Return
      [] OTHER -> FALSE

\* C20: whatever every probe, promiscuous-mode command, discovery command,
\* write and dump answers, the run comes to its end and hands True or False
\* to the caller: nothing is raised, the run can always take a step until it
\* has returned, and every step lowers a bound on the commands still to
\* come.
C20_AlwaysCompletes ==
    /\ [](result # "raised")
    /\ [](IF ctl.pc = "done" THEN result \in {"True", "False"}
          ELSE result = "none" /\ Rank > 0 /\ CanStep)
    /\ [][Rank' < Rank]_vars

\* a run ended after a write raised an exception and every container was
\* still dumped
C20_Witness ==
    /\ ctl.pc = "done" /\ result = "False"
    /\ \E e \in EdgeIds : wres[e] = "exc"
    /\ containers # <<>> /\ Len(Dumps) = Len(containers)

\* how edge e ended in this run
EdgeOutcome(e) ==
    IF Written(e) THEN "Written"
    ELSE IF mac[e] = None THEN "DiscoveryExhausted"
    ELSE IF Found(e) /\ wres[e] # "none" THEN "WriteRejected"
    ELSE "NodeNotReady"

\* what the value handed to the caller says about edge e: the value is a
\* bool, so it names the outcome of an edge only when it is True
EdgeReport(res, e) == IF res = "True" THEN "Written" ELSE "unknown"

\* C21: the value a run returns gives, for every edge of the topology, the
\* edge's own outcome (Written, or the reason it failed), so the caller can
\* tell which edges failed and why.
C21_PerEdgeReport ==
    ctl.pc = "done" =>
        \A e \in EdgeIds : EdgeApplicable(e) => EdgeReport(result, e) = EdgeOutcome(e)

C23_Cancellation ==
    [][cancelled =>
          /\ cmds' = cmds /\ wait_count' = wait_count /\ ready' = ready
          /\ result' # "raised"]_vars

\* C24: every write is issued on the source node of an edge and carries that
\* edge's source interface, that edge's target address and the address the
\* edge's own discovery returned, as returned; it is never issued on the
\* edge's target node and never carries what another discovery returned.
C24_WriteParameters ==
    /\ \A i \in DOMAIN cmds :
          cmds[i].kind = "write" =>
              \E e \in EdgeIds :
                  /\ EdgeApplicable(e) /\ Found(e)
                  /\ cmds[i] = Cmd("write", Edges[e].src, "set ip neighbor",
                                   Edges[e].srcIf, Edges[e].ip, mac[e])
                  /\ cmds[i].node # Edges[e].dst
                  /\ i - 1 \in DiscoverIdx(e)
                  /\ \A k \in EdgeIds \ {e} : cmds[i].ip # Edges[k].ip
    /\ \A e \in EdgeIds :
          (ctl.pc = "write" /\ ctl.edge = e /\ JustAnswered(e, found_by[e])) =>
              mac[e] = Reported(found_by[e], last)

\* both edges were written, with different addresses
C24_Witness ==
    /\ WriteIdx(1) # {} /\ WriteIdx(2) # {}
    /\ Found(1) /\ Found(2) /\ mac[1] # mac[2]
    /\ \E i \in WriteIdx(1) : cmds[i].mac = mac[1]
    /\ \E i \in WriteIdx(2) : cmds[i].mac = mac[2]

\* C25: within one run each edge is discovered at most once, with each
\* discovery command issued at most once, and written at most once: nothing
\* goes back to an edge whose discovery or write has failed.
C25_NoRetryWithinRun ==
    \A e \in EdgeIds :
        /\ Cardinality(WriteIdx(e)) <= 1
        /\ Len(DiscoverCmds(e)) <= Len(commands)
        /\ \A i, j \in DOMAIN DiscoverCmds(e) :
              i # j => DiscoverCmds(e)[i].what # DiscoverCmds(e)[j].what
        /\ (wres[e] # "none" \/ mac[e] = None) =>
              ~(ctl.pc \in {"discover", "write"} /\ ctl.edge = e)
        /\ ctl.pc \in {"discover", "write"} =>
              (e > ctl.edge => (DiscoverIdx(e) = {} /\ WriteIdx(e) = {}))

\* the run is over: the write of the first edge timed out and was the only
\* one, the discovery of the second ran out of commands
C25_Witness ==
    /\ ctl.pc = "done"
    /\ Found(1) /\ wres[1] = "timeout" /\ Cardinality(WriteIdx(1)) = 1
    /\ mac[2] = None /\ Len(DiscoverCmds(2)) = Len(commands)

\* every applicable edge before edge e has been written
EarlierWritten(e) ==
    \A k \in EdgeIds : (k < e /\ EdgeApplicable(k)) => Written(k)

\* C26: failures that a later attempt makes good leave no trace for the
\* caller: the gate hands on unchanged however many probes failed, the
\* discovery of an edge keeps `success` as the earlier edges left it however
\* many of its commands failed, the write carries the address whichever
\* command found it, and a run whose edges were all written returns True
\* whichever commands found the addresses.
C26_TransientFailuresHidden ==
    /\ tries > 0 => (result = "none" /\ success /\ wait_count = 0)
    /\ ctl.pc \in {"discover", "write"} =>
          /\ result = "none"
          /\ success <=> EarlierWritten(ctl.edge)
    /\ \A e \in EdgeIds : \A i \in WriteIdx(e) :
          /\ found_by[e] \in DOMAIN commands
          /\ cmds[i] = Cmd("write", Edges[e].src, "set ip neighbor",
                           Edges[e].srcIf, Edges[e].ip, mac[e])
    /\ (ctl.pc = "done" /\ timed_out = {}) =>
          ((\A e \in EdgeIds : EdgeApplicable(e) => Written(e)) => result = "True")

\* the run returned True although the first two discovery commands of an
\* edge had failed
C26_Witness ==
    /\ ctl.pc = "done" /\ result = "True"
    /\ \E e \in EdgeIds : Written(e) /\ found_by[e] = Len(commands)

\* every applicable edge was discovered and its write exited with status 0
AllWritten == \A e \in EdgeIds : EdgeApplicable(e) => Written(e)

\* edge e has failed: its discovery returned None or its write did not
\* exit with status 0
EdgeFailed(e) == mac[e] = None \/ wres[e] \in {"err", "timeout", "exc"}

\* C27 (as stated): the run returns True exactly when every container passed
\* the gate and every applicable edge was discovered and written with exit
\* status 0, and it returns False as soon as one of these has failed: once
\* an edge has failed the run is over.
C27_ReturnValue_AsStated ==
    /\ ctl.pc = "done" => (result = "True" <=> (ready = Range(containers) /\ AllWritten))
    /\ (timed_out # {} \/ \E e \in EdgeIds : EdgeFailed(e)) =>
          (ctl.pc = "done" /\ result = "False")

\* C27: the run returns True exactly when every container passed the gate
\* and every applicable edge was discovered and written, a write counting as
\* succeeded exactly on exit status 0; it returns False at once when a
\* container times out at the gate, and when an edge has failed it returns
\* False at the end of the run, after the other edge was attempted and every
\* container was dumped.
C27_ReturnValue ==
    /\ ctl.pc = "done" =>
          /\ result \in {"True", "False"}
          /\ result = "True" <=> (ready = Range(containers) /\ AllWritten)
    /\ timed_out # {} => (ctl.pc = "done" /\ result = "False" /\ Dumps = <<>>)
    /\ \A e \in EdgeIds :
          /\ EdgeFailed(e) => (~success /\ result # "True")
          /\ (wres[e] # "none" /\ success) => wres[e] = "ok"
    /\ (ctl.pc = "done" /\ timed_out = {}) =>
          /\ \A e \in EdgeIds : EdgeApplicable(e) => DiscoverIdx(e) # {}
          /\ Len(Dumps) = Len(containers)

\* the write of the first edge exited with an error; the second edge was
\* still written, every container dumped, and the run returned False
C27_Witness ==
    /\ ctl.pc = "done" /\ result = "False"
    /\ wres[1] = "err" /\ Written(2)
    /\ Len(Dumps) = Len(containers)

\* every command start_containers would issue, in its order
RECURSIVE Planned(_, _)
Planned(order, i) ==
    IF i > Len(order) THEN <<>>
    ELSE LET todo == ContainerCommands(mgr.ifaces[order[i]])
         IN [j \in 1..Len(todo) |-> [node |-> order[i], kind |-> todo[j]]] \o Planned(order, i + 1)

IssuedByManager == [i \in 1..Len(mgr.cmds) |-> [node |-> mgr.cmds[i].node, kind |-> mgr.cmds[i].kind]]

\* C28: start_containers issues the commands of the containers in sorted
\* order; it never raises; it returns True exactly when every command of every
\* container was issued and succeeded; a command that fails is the last one
\* issued, so no container later in the order gets a command, and the call
\* returns False.
C28_StartContainers ==
    LET plan == Planned(sorted(Range(containers)), 1)
    IN /\ mgr.result # "raised"
       /\ Len(mgr.cmds) <= Len(plan)
       /\ IssuedByManager = SubSeq(plan, 1, Len(mgr.cmds))
       /\ \A i \in 1..Len(mgr.cmds) : mgr.cmds[i].out # "ok" =>
             /\ i = Len(mgr.cmds)
             /\ mgr.pc = "done"
             /\ mgr.result = "False"
       /\ mgr.pc = "done" =>
             (mgr.result = "True" <=>
                 /\ Len(mgr.cmds) = Len(plan)
                 /\ \A i \in 1..Len(mgr.cmds) : mgr.cmds[i].out = "ok")

\* the network connect of the first container fails while two more containers
\* wait in the order: False, and the last command is that connect
C28_Witness ==
    /\ mgr.pc = "done"
    /\ mgr.result = "False"
    /\ Len(sorted(Range(containers))) = 3
    /\ Len(mgr.cmds) = 2
    /\ mgr.cmds[2].kind = "connect"
    /\ mgr.cmds[2].out = "err"
    /\ mgr.cmds[2].node = sorted(Range(containers))[1]

InterfaceNames == {"host-eth0", "host-eth1"}

\* where re.search finds the address in `text`: the position of the label
MatchPos(labels, text) ==
    LET hits == {i \in 1..Len(text) : MatchAt(labels, text, i) # None}
    IN  CHOOSE i \in hits : \A j \in hits : i <= j

\* the interface whose entry holds position i of `text`: the interface named
\* last before i, or the interface asked for when the text names none
ListedUnder(text, i, asked) ==
    LET named == {j \in 1..i : text[j] \in InterfaceNames}
    IN  IF named = {} THEN asked
        ELSE text[CHOOSE j \in named : \A k \in named : k <= j]

\* C29: the address discovery returns for an edge is the address the node
\* lists for the target interface of that edge, never the address listed for
\* another interface of the node.
C29_AddressOfRequestedInterface ==
    \A e \in EdgeIds :
        (/\ lastEdge = e
         /\ cmds # <<>> /\ cmds[Len(cmds)].kind = "discover"
         /\ Found(e))
        => ListedUnder(last.out, MatchPos(LabelsFor(found_by[e]), last.out), Edges[e].dstIf)
               = Edges[e].dstIf

\* what the discovery loop gets from one command: the address it yields and
\* whether the loop goes on
DiscoveryOutcome(s, r) == <<StrategyYield(s, r), Continues(r)>>

\* C30: a command that timed out gives its caller an outcome different from
\* that of a command that exited with an error: the write's return value, the
\* discovery loop's yield for the command, the readiness loop's test of the
\* probe.
C30_TimeoutDistinguishable ==
    /\ \A e \in EdgeIds :
          wres[e] = "timeout" => WriteSucceeded(wres[e]) # WriteSucceeded("err")
    /\ (last.kind = "timeout" /\ lastEdge \in EdgeIds) =>
          \A q \in Replies : q.kind = "err" =>
              \E s \in DOMAIN commands : DiscoveryOutcome(s, last) # DiscoveryOutcome(s, q)
    /\ (ctl.pc = "ready" /\ wait_count > 0) =>
          ProbeSucceeded("timeout") # ProbeSucceeded("err")

\* both endpoint containers of edge e are in the configuration
BothConfigured(e) ==
    {Edges[e].src, Edges[e].dst} \subseteq {containers[i] : i \in 1..Len(containers)}

\* C31: an edge with an endpoint container missing from the configuration
\* gets no discovery command and no write and is never marked failed; a run
\* in which no edge has both endpoints and every container passed the
\* readiness gate returns True.
C31_MissingEndpointSkipped ==
    /\ \A e \in EdgeIds : ~BothConfigured(e) =>
          /\ DiscoverIdx(e) = {}
          /\ WriteIdx(e) = {}
          /\ mac[e] = Unset
          /\ wres[e] = "none"
    /\ (/\ ctl.pc = "done"
        /\ \A e \in EdgeIds : ~BothConfigured(e)
        /\ timed_out = {})
       => result = "True"

\* vxlan-processor and destination alone: neither edge has both endpoints, the
\* run dumps both tables and returns True
C31_Witness ==
    /\ ctl.pc = "done"
    /\ result = "True"
    /\ Range(containers) = {"vxlan-processor", "destination"}
    /\ Len(Dumps) = 2
    /\ \A i \in DOMAIN cmds : cmds[i].kind \notin {"discover", "write"}

\* the containers before position i of the configuration
Earlier(i) == {containers[j] : j \in 1..(i - 1)}

\* C32: the readiness gate takes the containers in configuration order: while
\* container i is probed, exactly the containers before it have answered; when
\* a container times out the run is over with False, no container after it
\* has answered a probe, and no discovery, write or dump has been issued.
C32_SequentialFailFast ==
    /\ ctl.pc = "ready" => ready = Earlier(ctl.idx)
    /\ \A b \in timed_out :
          /\ timed_out = {b}
          /\ ctl.pc = "done"
          /\ result = "False"
          /\ \E i \in 1..Len(containers) : containers[i] = b /\ ready = Earlier(i)
          /\ \A k \in DOMAIN cmds : cmds[k].kind \notin {"discover", "write", "dump"}

\* the second of three containers times out after the first answered
C32_Witness ==
    /\ Len(containers) = 3
    /\ timed_out = {containers[2]}
    /\ ready = {containers[1]}
    /\ ctl.pc = "done"
    /\ result = "False"

\* C33: every finished run has issued one dump to each container of the
\* configuration, after the last discovery and write, also when an edge
\* failed and also when a container failed the readiness gate.
C33_DumpForEveryNode ==
    ctl.pc = "done" =>
        \A n \in Range(containers) :
            \E i \in DOMAIN cmds :
                /\ cmds[i].kind = "dump" /\ cmds[i].node = n
                /\ \A j \in DOMAIN cmds : cmds[j].kind \in {"discover", "write"} => j < i

\* how edge e ended: discovery returned None, or the write did not succeed
NotFound(e) == Returned(e) /\ ~Found(e)
WriteFailed(e) == Found(e) /\ wres[e] \notin {"none", "ok"}

NodesOf(kind) ==
    LET Is(c) == c.kind = kind
        sel == SelectSeq(mgr.cmds, Is)
    IN  [i \in 1..Len(sel) |-> sel[i].node]

\* start_containers had started every container
AllStarted ==
    /\ Len(NodesOf("run")) = Len(containers)
    /\ \A i \in 1..Len(mgr.cmds) : mgr.cmds[i].kind # "rm" => mgr.cmds[i].out = "ok"

\* C35: when stop_containers has returned after a start of every container,
\* a removal was issued for every container, also after a removal that
\* failed, and the removals run in the reverse of the start order.
C35_StopReversesStart ==
    (mgr.pc = "stopped" /\ AllStarted) =>
        /\ Len(NodesOf("rm")) = Len(containers)
        /\ NodesOf("rm") = reversed(NodesOf("run"))

\* the children that are running
RunningChildren == {n \in DOMAIN sup.child : sup.child[n] = "running"}

\* position of a child in the order of startup
StartedAt(n) == CHOOSE i \in 1..Len(StartList) : StartList[i] = n

\* C36: when the entrypoint has exited through signal_handler (a signal
\* arrived or the monitor saw a service end), the children it signalled were
\* taken in reverse order of startup and no child it started is running.
C36_ShutdownStopsEveryChild ==
    (sup.pc = "exited" /\ sup.via = "handler") =>
        /\ \A i, j \in 1..Len(sup.signalled) :
              i < j => StartedAt(sup.signalled[i]) > StartedAt(sup.signalled[j])
        /\ RunningChildren = {}

\* C37: the Kea daemons are started only once the socket was seen within the
\* ten checks and the configuration was applied; when the socket does not
\* appear or the configuration fails the entrypoint exits with status 1,
\* Kea was never started, and FRR and VPP are no longer running.
C37_KeaAfterVppConfigured ==
    /\ \A n \in {"Kea-DHCP4", "Kea-DHCP6"} :
          sup.child[n] # "none" => (sup.polls \in 1..PollLimit /\ sup.via \notin {"socket", "config"})
    /\ sup.via \in {"socket", "config"} =>
          /\ sup.pc = "exited" /\ sup.exit = 1
          /\ \A n \in {"Kea-DHCP4", "Kea-DHCP6"} : sup.child[n] = "none"
          /\ \A n \in {"FRR", "VPP"} : sup.child[n] # "running"
====
